---- MODULE Spec2Model ----
(***************************************************************************)
(* The compand audio filter of libavfilter/af_compand.c as a state machine. *)
(*                                                                         *)
(* Numbers.  The filter computes in float.  The model computes on fixed    *)
(* grids: linear amplitudes, gains and envelope coefficients in units of   *)
(* 1/One, log-domain values (natural logarithms) in units of 1/LogOne,     *)
(* slopes in units of 1/SlopeOne, decibels as integers.  Every float       *)
(* operation becomes the same operation followed by rounding to the grid   *)
(* (Rnd).  logf/expf are the piecewise-linear interpolation of log2/2^x    *)
(* between powers of two.  The envelope follower (update_volume) also      *)
(* keeps the 24-bit significand of float: a grid value of 2^24 units or    *)
(* more is rounded to the nearest float (Flt).                             *)
(***************************************************************************)
EXTENDS Integers, Sequences, FiniteSets, TLC

\* ------------------------------------------------------------------ bounds
MaxDelay == 2
MaxFed == 4

\* --------------------------------------------------------------- arithmetic
One == 16
LogOne == 1000
SlopeOne == 1000
Ln2 == 693
LnPerDb == 115
DrainMax == 2048

Abs(a) == IF a < 0 THEN -a ELSE a
Min(a, b) == IF a < b THEN a ELSE b
Max(a, b) == IF a > b THEN a ELSE b

\* a / b rounded to the nearest grid point (b > 0)
Rnd(a, b) == (2 * a + b) \div (2 * b)

\* a / b for either sign of b
Quot(a, b) == IF b > 0 THEN Rnd(a, b) ELSE Rnd(-a, -b)

RECURSIVE Pow2(_)
Pow2(k) == IF k <= 0 THEN 1 ELSE 2 * Pow2(k - 1)

RECURSIVE Log2Floor(_)
Log2Floor(v) == IF v < 2 THEN 0 ELSE 1 + Log2Floor(v \div 2)

Log2One == Log2Floor(One)

\* logf of a linear amplitude v (units of 1/One), in units of 1/LogOne
LogNegInf == -1000000
Logf(v) ==
    IF v <= 0 THEN LogNegInf
    ELSE LET k == Log2Floor(v)
             p == Pow2(k)
         IN  Ln2 * (k - Log2One) + Rnd(Ln2 * (v - p), p)

\* expf of a log value l (units of 1/LogOne), in units of 1/One
Expf(l) ==
    LET q == l \div Ln2
        rem == l - Ln2 * q
        num == One * (Ln2 + rem)
    IN  IF q >= 0 THEN Rnd(num * Pow2(q), Ln2) ELSE Rnd(num, Ln2 * Pow2(-q))

RECURSIVE SqrtUpTo(_, _, _)
SqrtUpTo(n, lo, hi) ==
    IF hi - lo <= 1 THEN lo
    ELSE LET mid == (lo + hi) \div 2
         IN  IF mid * mid <= n THEN SqrtUpTo(n, mid, hi) ELSE SqrtUpTo(n, lo, mid)

Sqrt(n) == SqrtUpTo(n, 0, 46340)

\* av_clipf(v, -1.0f, 1.0f)
av_clipf(v) == IF v < -One THEN -One ELSE IF v > One THEN One ELSE v

\* the product of two values on the 1/One grid
MulLin(a, b) == Rnd(a * b, One)


\* ------------------------------------------------------- transfer function
\* CompandSegment
ZeroSeg == [x |-> 0, y |-> 0, a |-> 0, b |-> 0]

\* count_items: one more than the number of '|' separators
count_items(items) == Len(items)

\* the length of the array config_output allocates for nb_points points
SegLen(nb_points) == (nb_points + 4) * 2

\* av_mallocz_array: every field zero
ZeroSegs(n) == [i \in 0 .. n - 1 |-> ZeroSeg]

\* x * M_LN10 / 20
DbToLn(d) == d * LnPerDb

\* the loop reading the points: S(i) is segments[2 * (i + 1)]
RECURSIVE ParsePoints(_, _, _)
ParsePoints(points, segs, i) ==
    IF i >= Len(points) THEN [err |-> FALSE, segs |-> segs]
    ELSE LET pt == points[i + 1]
             k == 2 * (i + 1)
             s1 == [segs EXCEPT ![k] = [@ EXCEPT !.x = pt.x, !.y = pt.y]]
         IN  IF ~pt.ok THEN [err |-> TRUE, segs |-> segs]
             ELSE IF i > 0 /\ s1[k - 2].x > s1[k].x
                  THEN [err |-> TRUE, segs |-> segs]
                  ELSE ParsePoints(points,
                                   [s1 EXCEPT ![k] = [@ EXCEPT !.y = pt.y - pt.x]],
                                   i + 1)

\* "Add 0,0 if necessary": the knot count after it
AddZeroPoint(segs, num) ==
    IF num = 0 \/ segs[2 * num].x # 0 THEN num + 1 ELSE num

\* "Add a tail off segment at the start": S(x) is now segments[2 * x]
AddTail(segs, curve_dB) ==
    [segs EXCEPT ![0] = [@ EXCEPT !.x = segs[2].x - 2 * curve_dB, !.y = segs[2].y]]

\* for (j = --i; j < num; j++) S(j) = S(j + 1);   (num already decremented)
RECURSIVE ShiftKnots(_, _, _)
ShiftKnots(segs, j, num) ==
    IF j >= num THEN segs
    ELSE ShiftKnots([segs EXCEPT ![2 * j] = segs[2 * (j + 1)]], j + 1, num)

\* "Join adjacent colinear segments"
RECURSIVE JoinColinear(_, _, _)
JoinColinear(segs, i, num) ==
    IF i >= num THEN [segs |-> segs, num |-> num]
    ELSE LET S(k) == segs[2 * k]
             g1 == (S(i - 1).y - S(i - 2).y) * (S(i).x - S(i - 1).x)
             g2 == (S(i).y - S(i - 1).y) * (S(i - 1).x - S(i - 2).x)
         IN  IF g1 # g2 THEN JoinColinear(segs, i + 1, num)
             ELSE JoinColinear(ShiftKnots(segs, i - 1, num - 1), i, num - 1)

\* for (i = 0; !i || segments[i - 2].x; i += 2): gain and dB -> ln
RECURSIVE ToLog(_, _, _)
ToLog(segs, i, gain_dB) ==
    IF i # 0 /\ segs[i - 2].x = 0 THEN segs
    ELSE ToLog([segs EXCEPT ![i] = [@ EXCEPT !.x = DbToLn(segs[i].x),
                                             !.y = DbToLn(segs[i].y + gain_dB)]],
               i + 2, gain_dB)

\* one pass of the soft-knee loop body at index i: L(k) is segments[i - k]
RoundKnee(segs, i, radius) ==
    LET L4 == segs[i - 4]
        L2 == segs[i - 2]
        L0 == segs[i]
        b4 == Quot((L2.y - L4.y) * SlopeOne, L2.x - L4.x)
        b2 == Quot((L0.y - L2.y) * SlopeOne, L0.x - L2.x)
        dx1 == L2.x - L4.x
        dy1 == L2.y - L4.y
        len1 == Sqrt(dx1 * dx1 + dy1 * dy1)
        r1 == Min(radius, len1)
        x3 == L2.x - Quot(r1 * dx1, len1)
        y3 == L2.y - Quot(r1 * dy1, len1)
        dx2 == L0.x - L2.x
        dy2 == L0.y - L2.y
        len2 == Sqrt(dx2 * dx2 + dy2 * dy2)
        r2 == Min(radius, len2 \div 2)
        xx == L2.x + Quot(r2 * dx2, len2)
        yy == L2.y + Quot(r2 * dy2, len2)
        cx == Quot(x3 + L2.x + xx, 3)
        cy == Quot(y3 + L2.y + yy, 3)
        in1 == cx - x3
        out1 == cy - y3
        in2 == xx - x3
        out2 == yy - y3
        a3 == Quot((Quot(out2 * SlopeOne, in2) - Quot(out1 * SlopeOne, in1)) * LogOne,
                   in2 - in1)
        b3 == Quot(out1 * SlopeOne, in1) - Quot(a3 * in1, LogOne)
    IN  [segs EXCEPT ![i - 4] = [@ EXCEPT !.a = 0, !.b = b4],
                     ![i - 2] = [x |-> xx, y |-> yy, a |-> 0, b |-> b2],
                     ![i - 3] = [x |-> x3, y |-> y3, a |-> a3, b |-> b3]]

\* for (i = 4; segments[i - 2].x; i += 2) { ... }  L(3).x = 0; L(3).y = L(2).y;
RECURSIVE SoftKnee(_, _, _)
SoftKnee(segs, i, radius) ==
    IF segs[i - 2].x # 0 THEN SoftKnee(RoundKnee(segs, i, radius), i + 2, radius)
    ELSE [segs EXCEPT ![i - 3] = [@ EXCEPT !.x = 0, !.y = segs[i - 2].y]]

\* the segment array config_output builds from parsed points
BuildSegments(parsed, nb_points, curve_dB, gain_dB) ==
    LET num1 == AddZeroPoint(parsed, nb_points)
        tailed == AddTail(parsed, curve_dB)
        joined == JoinColinear(tailed, 2, num1 + 1)
        logged == ToLog(joined.segs, 0, gain_dB)
    IN  SoftKnee(logged, 4, DbToLn(curve_dB))

\* ------------------------------------------------------------------ state
VARIABLES
    opts,           \* the options: attacks, decays, points, soft-knee, gain, volume, delay
    layout,         \* outlink: the channel count of the negotiated layout
    source,         \* the upstream filter: frame lengths and sample values it delivers
    ret,            \* what the last call returned: "none", "ok" (0), "EINVAL", "EOF"
    last_call,      \* the handler that ran last
    nb_channels,    \* CompandContext.nb_channels
    channels,       \* CompandContext.channels: ChanParam per channel (1-based)
    segments,       \* CompandContext.segments, indexed from 0
    beyond,         \* the memory that follows the segments array
    in_min_lin,
    out_min_lin,
    compand,        \* the function pointer: "none", "compand_nodelay", "compand_delay"
    delay_samples,
    delay_count,
    delay_index,
    delay_frame,    \* per channel, the delay buffer, indexed from 0
    written,        \* the slots of the delay buffer that have been stored to
    pts,
    eof,            \* the input has reported AVERROR_EOF
    fed,            \* per channel, every input sample so far, in order
    volh,           \* per channel, the envelope volume after each input sample
    chan_end,       \* per channel, count and dindex at the end of its loop in the last call
    out_frame,      \* the frame the last call handed to ff_filter_frame, or NullFrame
    sent,           \* per channel, every sample handed to ff_filter_frame, in order
    raw             \* per channel, the sample each of those was computed from

vars == << opts, layout, source, ret, last_call, nb_channels, channels, segments,
           beyond, in_min_lin, out_min_lin, compand, delay_samples, delay_count,
           delay_index, delay_frame, written, pts, eof, fed, volh, chan_end,
           out_frame, sent, raw >>

curve == << segments, beyond, in_min_lin, out_min_lin >>
setup == << opts, layout, source, nb_channels, compand, delay_samples >>

\* --------------------------------------------------------------- envelope
\* the significand of a float: 24 bits
MantBits == 24

\* the distance between neighbouring floats at magnitude m, in the model's unit
\* (below 2^MantBits units every value of the grid is a float)
Spacing(m) == Pow2(Log2Floor(m) - MantBits + 1)

\* x rounded to the nearest float, ties to the even significand
Flt(x) ==
    LET m == Abs(x)
        q == Spacing(m)
        lo == (m \div q) * q
        r == m - lo
        up == IF 2 * r > q \/ (2 * r = q /\ (lo \div q) % 2 = 1) THEN lo + q ELSE lo
    IN  IF m < Pow2(MantBits) THEN x ELSE IF x < 0 THEN -up ELSE up

\* update_volume with the difference taken the wrong way round
update_volume_reversed(cp, in) ==
    LET delta == Flt(cp.volume - in)
    IN  IF delta > 0
        THEN [cp EXCEPT !.volume = Flt(cp.volume + Flt(MulLin(delta, cp.attack)))]
        ELSE [cp EXCEPT !.volume = Flt(cp.volume + Flt(MulLin(delta, cp.decay)))]

\* update_volume(cp, in): the ChanParam after the call; delta, the product and
\* the sum are floats
update_volume(cp, in) ==
    LET delta == Flt(in - cp.volume)
    IN  IF delta > 0
        THEN [cp EXCEPT !.volume = Flt(cp.volume + Flt(MulLin(delta, cp.attack)))]
        ELSE [cp EXCEPT !.volume = Flt(cp.volume + Flt(MulLin(delta, cp.decay)))]

\* segments[k], or what lies after the array when k is past its end
SegAt(segs, mem, k) ==
    IF k \in DOMAIN segs THEN segs[k] ELSE mem[k - Cardinality(DOMAIN segs) + 1]

\* for (i = 1;; i++) if (in_log <= s->segments[i + 1].x) break;
RECURSIVE ScanSegments(_, _, _, _)
ScanSegments(segs, mem, in_log, i) ==
    IF in_log <= SegAt(segs, mem, i + 1).x THEN i
    ELSE ScanSegments(segs, mem, in_log, i + 1)

\* get_volume(s, in_lin)
get_volume_at(segs, mem, min_in, min_out, in_lin) ==
    IF in_lin < min_in THEN min_out
    ELSE LET in_log == Logf(in_lin)
             i == ScanSegments(segs, mem, in_log, 1)
             cs == SegAt(segs, mem, i)
             dx == in_log - cs.x
             out_log == cs.y + Rnd(dx * (Rnd(cs.a * dx, LogOne) + cs.b), SlopeOne)
         IN  Expf(out_log)

get_volume(in_lin) ==
    get_volume_at(segments, beyond, in_min_lin, out_min_lin, in_lin)

\* ----------------------------------------------------------- config_output
\* the time constant t (in sample periods) as a coefficient
Coefficient(t) ==
    IF t > 1 THEN One - Expf(Quot(-LogOne, t)) ELSE One

\* the loops over the attack and decay items: sscanf into channels[i]
ItemAt(items, i) == IF i <= Len(items) /\ items[i].ok THEN items[i].v ELSE 0
Scanned(items) == Cardinality({i \in 1 .. Len(items) : items[i].ok})
NegativeItem(items) == \E i \in 1 .. Len(items) : items[i].ok /\ items[i].v < 0

\* the ChanParam array after the last loop of config_output
ChanParams(o, n) ==
    [i \in 1 .. n |->
        [attack |-> Coefficient(ItemAt(o.attacks, i)),
         decay  |-> Coefficient(ItemAt(o.decays, i)),
         volume |-> Expf(DbToLn(o.initial_volume))]]

\* the checks of config_output without the test of the counts against the channels
ConfigInvalidUncounted(o, n) ==
    \/ n <= 0
    \/ NegativeItem(o.attacks)
    \/ NegativeItem(o.decays)
    \/ Scanned(o.attacks) # Scanned(o.decays)
    \/ ParsePoints(o.points, ZeroSegs(SegLen(count_items(o.points))), 0).err

\* the checks of config_output that return AVERROR(EINVAL)
ConfigInvalid(o, n) ==
    \/ n <= 0
    \/ count_items(o.attacks) > n \/ count_items(o.decays) > n
    \/ NegativeItem(o.attacks)
    \/ NegativeItem(o.decays)
    \/ Scanned(o.attacks) # Scanned(o.decays)
    \/ ParsePoints(o.points, ZeroSegs(SegLen(count_items(o.points))), 0).err

\* what the memory after the segments array may hold: a value that ends the
\* scan at once, or one that does not followed by one that does
JunkSeg(xv, yv) == [x |-> xv, y |-> yv, a |-> 0, b |-> 0]
BeyondOutcomes ==
    { << JunkSeg(-LogNegInf, 0) >>,
      << JunkSeg(LogNegInf, -Ln2), JunkSeg(-LogNegInf, 0) >> }

NoFrame == << >>

\* out_frame while it is NULL
NullFrame == [null |-> TRUE, nb_samples |-> 0, pts |-> 0]

config_output ==
    /\ ret = "none"
    /\ last_call' = "config_output"
    /\ IF ConfigInvalid(opts, layout)
       THEN /\ ret' = "EINVAL"
            /\ UNCHANGED << nb_channels, channels, segments, beyond, in_min_lin,
                            out_min_lin, compand, delay_samples, delay_frame,
                            fed, volh, chan_end, sent, raw >>
       ELSE LET nb_points == count_items(opts.points)
                parsed == ParsePoints(opts.points, ZeroSegs(SegLen(nb_points)), 0).segs
                built == BuildSegments(parsed, nb_points, opts.curve_dB, opts.gain_dB)
            IN  /\ ret' = "ok"
                /\ nb_channels' = layout
                /\ channels' = ChanParams(opts, layout)
                /\ segments' = built
                /\ beyond' \in BeyondOutcomes
                /\ in_min_lin' = Expf(built[1].x)
                /\ out_min_lin' = Expf(built[1].y)
                /\ delay_samples' = opts.delay
                /\ compand' = IF opts.delay <= 0 THEN "compand_nodelay" ELSE "compand_delay"
                /\ delay_frame' = IF opts.delay <= 0 THEN NoFrame
                                  ELSE [c \in 1 .. layout |-> [k \in 0 .. opts.delay - 1 |-> 0]]
                /\ fed' = [c \in 1 .. layout |-> << >>]
                /\ volh' = [c \in 1 .. layout |-> << >>]
                /\ chan_end' = [c \in 1 .. layout |-> [count |-> 0, dindex |-> 0]]
                /\ sent' = [c \in 1 .. layout |-> << >>]
                /\ raw' = [c \in 1 .. layout |-> << >>]
    /\ UNCHANGED << opts, layout, source, delay_count, delay_index, written, pts, eof,
                    out_frame >>

\* ---------------------------------------------------------- compand_nodelay
\* one pass of the sample loop of compand_nodelay; st: cp, dst and the volumes
\* after each sample of this call
NodelayStep(st, in) ==
    LET cp == update_volume(st.cp, Abs(in))
    IN  [cp   |-> cp,
         dst  |-> Append(st.dst, av_clipf(MulLin(in, get_volume(cp.volume)))),
         volh |-> Append(st.volh, cp.volume)]

\* the sample loop over src[lo .. hi], in order: the first half of the range,
\* then the second from where the first ended (the test on Len only makes
\* the first half be evaluated before the second is entered)
RECURSIVE NodelayLoop(_, _, _, _)
NodelayLoop(st, src, lo, hi) ==
    IF lo > hi THEN st
    ELSE IF lo = hi THEN NodelayStep(st, src[lo])
    ELSE LET mid == (lo + hi) \div 2
             half == NodelayLoop(st, src, lo, mid)
         IN  IF Len(half.dst) >= 0 THEN NodelayLoop(half, src, mid + 1, hi) ELSE half

NodelayChannel(c, frame) ==
    NodelayLoop([cp |-> channels[c], dst |-> << >>, volh |-> << >>],
                frame[c], 1, Len(frame[c]))

compand_nodelay(frame) ==
    LET r == [c \in 1 .. nb_channels |-> NodelayChannel(c, frame)]
        n == Len(frame[1])
    IN  /\ last_call' = "compand_nodelay"
        /\ channels' = [c \in 1 .. nb_channels |-> r[c].cp]
        /\ volh' = [c \in 1 .. nb_channels |-> volh[c] \o r[c].volh]
        /\ fed' = [c \in 1 .. nb_channels |-> fed[c] \o frame[c]]
        /\ out_frame' = [null |-> FALSE, nb_samples |-> n, pts |-> Len(fed[1])]
        /\ sent' = [c \in 1 .. nb_channels |-> sent[c] \o r[c].dst]
        /\ raw' = [c \in 1 .. nb_channels |-> raw[c] \o frame[c]]
        /\ ret' = "ok"
        /\ UNCHANGED << delay_count, delay_index, delay_frame, written, pts, chan_end >>

\* ------------------------------------------------------------ compand_delay
MOD(a, b) == IF a >= b THEN a - b ELSE a

\* DelayStep with the gain taken from the volume before update_volume
DelayStepStale(st, src, idx) ==
    LET in == src[idx]
        cp == update_volume(st.cp, Abs(in))
        emit == st.count >= delay_samples
        alloc == emit /\ st.out.null
        left == Len(src) - (idx - 1)
    IN  [cp     |-> cp,
         count  |-> IF emit THEN st.count ELSE st.count + 1,
         out    |-> IF alloc THEN [null |-> FALSE, nb_samples |-> left, pts |-> st.spts]
                    ELSE st.out,
         spts   |-> IF alloc THEN st.spts + left ELSE st.spts,
         dst    |-> IF emit
                    THEN Append(st.dst,
                                av_clipf(MulLin(st.dbuf[st.dindex], get_volume(st.cp.volume))))
                    ELSE st.dst,
         raw    |-> IF emit THEN Append(st.raw, st.dbuf[st.dindex]) ELSE st.raw,
         dbuf   |-> [st.dbuf EXCEPT ![st.dindex] = in],
         dindex |-> MOD(st.dindex + 1, delay_samples),
         volh   |-> Append(st.volh, cp.volume)]

\* DelayStep with the fill test off by one
DelayStepLate(st, src, idx) ==
    LET in == src[idx]
        cp == update_volume(st.cp, Abs(in))
        emit == st.count > delay_samples
        alloc == emit /\ st.out.null
        left == Len(src) - (idx - 1)
    IN  [cp     |-> cp,
         count  |-> IF emit THEN st.count ELSE st.count + 1,
         out    |-> IF alloc THEN [null |-> FALSE, nb_samples |-> left, pts |-> st.spts]
                    ELSE st.out,
         spts   |-> IF alloc THEN st.spts + left ELSE st.spts,
         dst    |-> IF emit
                    THEN Append(st.dst,
                                av_clipf(MulLin(st.dbuf[st.dindex], get_volume(cp.volume))))
                    ELSE st.dst,
         raw    |-> IF emit THEN Append(st.raw, st.dbuf[st.dindex]) ELSE st.raw,
         dbuf   |-> [st.dbuf EXCEPT ![st.dindex] = in],
         dindex |-> MOD(st.dindex + 1, delay_samples),
         volh   |-> Append(st.volh, cp.volume)]

\* DelayStep with out_frame allocated for the whole input frame
DelayStepWhole(st, src, idx) ==
    LET in == src[idx]
        cp == update_volume(st.cp, Abs(in))
        emit == st.count >= delay_samples
        alloc == emit /\ st.out.null
        left == Len(src)
    IN  [cp     |-> cp,
         count  |-> IF emit THEN st.count ELSE st.count + 1,
         out    |-> IF alloc THEN [null |-> FALSE, nb_samples |-> left, pts |-> st.spts]
                    ELSE st.out,
         spts   |-> IF alloc THEN st.spts + left ELSE st.spts,
         dst    |-> IF emit
                    THEN Append(st.dst,
                                av_clipf(MulLin(st.dbuf[st.dindex], get_volume(cp.volume))))
                    ELSE st.dst,
         raw    |-> IF emit THEN Append(st.raw, st.dbuf[st.dindex]) ELSE st.raw,
         dbuf   |-> [st.dbuf EXCEPT ![st.dindex] = in],
         dindex |-> MOD(st.dindex + 1, delay_samples),
         volh   |-> Append(st.volh, cp.volume)]

\* one pass of the sample loop of compand_delay on src[idx] (idx from 1);
\* st: cp, count, dindex, dbuf, dst, out (out_frame), spts (s->pts), and of this
\* call the samples read from dbuf (raw) and the volume after each sample (volh)
DelayStep(st, src, idx) ==
    LET in == src[idx]
        cp == update_volume(st.cp, Abs(in))
        emit == st.count >= delay_samples
        alloc == emit /\ st.out.null
        left == Len(src) - (idx - 1)
    IN  [cp     |-> cp,
         count  |-> IF emit THEN st.count ELSE st.count + 1,
         out    |-> IF alloc THEN [null |-> FALSE, nb_samples |-> left, pts |-> st.spts]
                    ELSE st.out,
         spts   |-> IF alloc THEN st.spts + left ELSE st.spts,
         dst    |-> IF emit
                    THEN Append(st.dst,
                                av_clipf(MulLin(st.dbuf[st.dindex], get_volume(cp.volume))))
                    ELSE st.dst,
         raw    |-> IF emit THEN Append(st.raw, st.dbuf[st.dindex]) ELSE st.raw,
         dbuf   |-> [st.dbuf EXCEPT ![st.dindex] = in],
         dindex |-> MOD(st.dindex + 1, delay_samples),
         volh   |-> Append(st.volh, cp.volume)]

\* the sample loop over src[lo .. hi], in order, split as in NodelayLoop
RECURSIVE DelayLoop(_, _, _, _)
DelayLoop(st, src, lo, hi) ==
    IF lo > hi THEN st
    ELSE IF lo = hi THEN DelayStep(st, src, lo)
    ELSE LET mid == (lo + hi) \div 2
             half == DelayLoop(st, src, lo, mid)
         IN  IF Len(half.dst) >= 0 THEN DelayLoop(half, src, mid + 1, hi) ELSE half

\* the body of the channel loop for channel c: count and dindex start from the
\* shared fields, out_frame and s->pts carry over from the channel before
DelayChannel(c, frame, out, spts) ==
    DelayLoop([cp |-> channels[c], count |-> delay_count, dindex |-> delay_index,
               dbuf |-> delay_frame[c], dst |-> << >>, raw |-> << >>,
               volh |-> << >>, out |-> out, spts |-> spts],
              frame[c], 1, Len(frame[c]))

\* the channel loop: the per-channel results, in channel order
RECURSIVE DelayChannels(_, _, _)
DelayChannels(c, frame, done) ==
    IF c > nb_channels THEN done
    ELSE LET prev_out == IF c = 1 THEN NullFrame ELSE done[c - 1].out
             prev_pts == IF c = 1 THEN pts ELSE done[c - 1].spts
         IN  DelayChannels(c + 1, frame, Append(done, DelayChannel(c, frame, prev_out, prev_pts)))

\* the slots of the delay buffer a call on n samples stores to
StoredSlots(n) ==
    IF n >= delay_samples THEN 0 .. delay_samples - 1
    ELSE {(delay_index + i) % delay_samples : i \in 0 .. n - 1}

compand_delay(frame) ==
    LET r == DelayChannels(1, frame, << >>)
        last == r[nb_channels]
    IN  /\ last_call' = "compand_delay"
        /\ channels' = [c \in 1 .. nb_channels |-> r[c].cp]
        /\ volh' = [c \in 1 .. nb_channels |-> volh[c] \o r[c].volh]
        /\ fed' = [c \in 1 .. nb_channels |-> fed[c] \o frame[c]]
        /\ delay_frame' = [c \in 1 .. nb_channels |-> r[c].dbuf]
        /\ written' = written \cup StoredSlots(Len(frame[1]))
        /\ chan_end' = [c \in 1 .. nb_channels |->
                            [count |-> r[c].count, dindex |-> r[c].dindex]]
        /\ delay_count' = last.count
        /\ delay_index' = last.dindex
        /\ pts' = last.spts
        /\ out_frame' = last.out
        /\ sent' = [c \in 1 .. nb_channels |-> sent[c] \o r[c].dst]
        /\ raw' = [c \in 1 .. nb_channels |-> raw[c] \o r[c].raw]
        /\ ret' = "ok"

\* ------------------------------------------------------------ compand_drain
\* dindex after k passes of dindex = MOD(dindex + 1, m), from d < m
DindexAfter(d, k, m) == (d + k) % m

\* the slots the drain loop reads that were never stored to
DrainUnwritten(n) ==
    {DindexAfter(delay_index, i, delay_samples) : i \in 0 .. n - 1} \ written

\* FFMIN(2048, s->delay_count) with the limit left out
DrainLenUncapped(count) == count

\* FFMIN(2048, s->delay_count): the size of the frame compand_drain allocates
DrainLen(count) == Min(DrainMax, count)

\* the body of compand_drain, leaving the ChanParam array as env
DrainFrame(env) ==
    LET n == DrainLen(delay_count)
        slot(i) == DindexAfter(delay_index, i - 1, delay_samples)
    IN  \E junk \in [1 .. nb_channels -> [DrainUnwritten(n) -> source.junk]] :
          LET dbuf(c, k) == IF k \in written THEN delay_frame[c][k] ELSE junk[c][k]
              dst(c) == [i \in 1 .. n |->
                            av_clipf(MulLin(dbuf(c, slot(i)),
                                            get_volume(channels[c].volume)))]
          IN  /\ last_call' = "compand_drain"
              /\ out_frame' = [null |-> FALSE, nb_samples |-> n, pts |-> pts]
              /\ sent' = [c \in 1 .. nb_channels |-> sent[c] \o dst(c)]
              /\ raw' = [c \in 1 .. nb_channels |->
                            raw[c] \o [i \in 1 .. n |-> dbuf(c, slot(i))]]
              /\ pts' = pts + n
              /\ chan_end' = [c \in 1 .. nb_channels |->
                                 [count |-> delay_count - n,
                                  dindex |-> DindexAfter(delay_index, n, delay_samples)]]
              /\ delay_count' = delay_count - n
              /\ delay_index' = DindexAfter(delay_index, n, delay_samples)
              /\ ret' = "ok"
              /\ channels' = env
              /\ UNCHANGED << volh, fed, delay_frame, written >>

\* compand_drain that lets the envelope decay as if silence were fed
compand_drain_decaying ==
    DrainFrame([c \in 1 .. nb_channels |-> update_volume(channels[c], 0)])

compand_drain == DrainFrame(channels)

\* ------------------------------------------------- filter_frame, request_frame
\* the frames the input can deliver next: planar, one sequence per channel
Fed == Len(fed[1]) * nb_channels
FramesOf(n) ==
    IF source.level
    THEN {[c \in 1 .. nb_channels |-> [i \in 1 .. n |-> v]] : v \in source.vals}
    ELSE [1 .. nb_channels -> [1 .. n -> source.vals]]
InputFrames ==
    UNION {FramesOf(n) : n \in {m \in source.lens : Fed + m * nb_channels <= source.limit}}

\* s->compand(ctx, frame)
filter_frame(frame) ==
    \/ compand = "compand_nodelay" /\ compand_nodelay(frame)
    \/ compand = "compand_delay" /\ compand_delay(frame)

\* request_frame when ff_request_frame(ctx->inputs[0]) delivers a frame
request_frame_data ==
    /\ ret = "ok"
    /\ ~eof
    /\ \E frame \in InputFrames : filter_frame(frame)
    /\ UNCHANGED << setup, curve, eof >>

\* request_frame that passes AVERROR_EOF on without draining
request_frame_eof_undrained ==
    /\ ret = "ok"
    /\ eof' = TRUE
    /\ ret' = "EOF"
    /\ last_call' = "request_frame"
    /\ out_frame' = NullFrame
    /\ UNCHANGED << channels, volh, fed, delay_frame, written, sent, raw, pts,
                    chan_end, delay_count, delay_index >>
    /\ UNCHANGED << setup, curve >>

\* request_frame when ff_request_frame(ctx->inputs[0]) returns AVERROR_EOF
request_frame_eof ==
    /\ ret = "ok"
    /\ eof' = TRUE
    /\ \/ delay_count # 0 /\ compand_drain
       \/ /\ delay_count = 0
          /\ ret' = "EOF"
          /\ last_call' = "request_frame"
          /\ out_frame' = NullFrame
          /\ UNCHANGED << channels, volh, fed, delay_frame, written, sent, raw, pts,
                          chan_end, delay_count, delay_index >>
    /\ UNCHANGED << setup, curve >>

\* --------------------------------------------------------- specifications
\* a list item of the attacks/decays options, as sscanf reads it
Item(v) == [ok |-> TRUE, v |-> v]
Point(xv, yv) == [ok |-> TRUE, x |-> xv, y |-> yv]

AttackLists == { << Item(0) >>, << Item(3) >>, << Item(0), Item(3) >>, << Item(-1) >> }
DecayLists == { << Item(0) >>, << Item(3), Item(0) >> }
PointLists == { << Point(-18, -12), Point(-6, -12) >>,
                << Point(-6, -12), Point(-18, -12) >> }

OptionSets ==
    [attacks : AttackLists, decays : DecayLists, points : PointLists,
     curve_dB : {2}, gain_dB : {0}, initial_volume : {0}, delay : 0 .. MaxDelay]

\* An input: the frame lengths it delivers, the sample values, whether a frame
\* holds one level throughout, the most samples it delivers over all channels,
\* and what a never-written slot of the delay buffer may hold.
\* SmallSource: every frame over three sample values, within MaxFed samples.
SmallSource ==
    [lens |-> 0 .. MaxFed, vals |-> {-2 * One, 0, One \div 4}, level |-> FALSE,
     limit |-> MaxFed, junk |-> {-2 * One, 0, One \div 4}]

\* LongSource: frames around the drain limit of 2048, one level per frame.
LongSource ==
    [lens |-> {0, DrainMax - 1, DrainMax + 1}, vals |-> {One \div 4}, level |-> TRUE,
     limit |-> 2 * DrainMax + 2, junk |-> {0}]

LongOptionSets ==
    [attacks : {<< Item(0) >>}, decays : {<< Item(0) >>},
     points : {<< Point(-18, -12), Point(-6, -12) >>},
     curve_dB : {2}, gain_dB : {0}, initial_volume : {0},
     delay : {0, DrainMax, 2 * DrainMax + 1}]

Unconfigured ==
    /\ ret = "none"
    /\ last_call = "none"
    /\ nb_channels = 0
    /\ channels = << >>
    /\ segments = << >>
    /\ beyond = << >>
    /\ in_min_lin = 0
    /\ out_min_lin = 0
    /\ compand = "none"
    /\ delay_samples = 0
    /\ delay_count = 0
    /\ delay_index = 0
    /\ delay_frame = NoFrame
    /\ written = {}
    /\ pts = 0
    /\ eof = FALSE
    /\ fed = << >>
    /\ volh = << >>
    /\ chan_end = << >>
    /\ out_frame = NullFrame
    /\ sent = << >>
    /\ raw = << >>

Init ==
    /\ opts \in OptionSets
    /\ layout \in 0 .. 2
    /\ source = SmallSource
    /\ Unconfigured

Next ==
    \/ config_output
    \/ request_frame_data
    \/ request_frame_eof

Spec == Init /\ [][Next]_vars

\* the same filter on delay lines longer than one drain frame
InitLong ==
    /\ opts \in LongOptionSets
    /\ layout = 1
    /\ source = LongSource
    /\ Unconfigured

SpecLong == InitLong /\ [][Next]_vars

\* update_volume alone: every coefficient in (0, 1], and volumes and input
\* levels both where every difference is a float and where the float spacing
\* exceeds the smaller level
Coefficients == {1, One \div 4, One \div 2, One - 1, One}
SmallLevels == 0 .. 2 * One
LargeLevels == {Flt(Pow2(MantBits) + k) : k \in -1 .. 4} \cup {Pow2(MantBits + 1)}
Levels == SmallLevels \cup LargeLevels
InitEnv ==
    /\ Unconfigured
    /\ opts = << >>
    /\ layout = 1
    /\ source = << >>

EnvSetup ==
    /\ last_call = "none"
    /\ last_call' = "config_output"
    /\ \E a \in Coefficients, d \in Coefficients, v \in Levels :
          channels' = << [attack |-> a, decay |-> d, volume |-> v] >>
    /\ UNCHANGED << opts, layout, source, ret, nb_channels, curve, compand,
                    delay_samples, delay_count, delay_index, delay_frame, written,
                    pts, eof, fed, volh, chan_end, out_frame, sent, raw >>

EnvUpdate ==
    /\ last_call = "config_output"
    /\ last_call' = "update_volume"
    /\ \E in \in Levels :
          /\ channels' = << update_volume(channels[1], in) >>
          /\ fed' = << << in >> >>
          /\ volh' = << << channels[1].volume, update_volume(channels[1], in).volume >> >>
    /\ UNCHANGED << opts, layout, source, ret, nb_channels, curve, compand,
                    delay_samples, delay_count, delay_index, delay_frame, written,
                    pts, eof, chan_end, out_frame, sent, raw >>

NextEnv == EnvSetup \/ EnvUpdate

SpecEnv == InitEnv /\ [][NextEnv]_vars

\* ----------------------------------------------------------------- claims
DelayMode == compand = "compand_delay"
Chans == 1 .. nb_channels

\* C1: once request_frame has reported EOF on a delay-enabled stream, every
\* channel has been handed exactly as many samples as were fed in.
C1_DrainComplete ==
    (DelayMode /\ ret = "EOF") => \A c \in Chans : Len(sent[c]) = Len(fed[c])

\* a two-channel stream longer than the delay line, filled, run steady and drained
C1_Witness ==
    /\ DelayMode /\ ret = "EOF"
    /\ nb_channels = 2
    /\ Len(fed[1]) > delay_samples

\* C2, as claimed: every emitted sample is the fed-in sample it carries times
\* the gain of the volume right after that same sample was fed, clamped.
C2_GainOfFeedTime ==
    DelayMode =>
        \A c \in Chans : \A k \in 1 .. Len(sent[c]) :
            /\ k <= Len(fed[c])
            /\ sent[c][k] = av_clipf(MulLin(fed[c][k], get_volume(volh[c][k])))

\* the number of samples that had been fed when the k-th sample was emitted:
\* compand_delay emits it on the arrival delay_samples later, compand_drain
\* after the last input
EmitTime(c, k) ==
    IF k + delay_samples <= Len(fed[c]) THEN k + delay_samples ELSE Len(fed[c])

\* the sample the k-th emission carries: the k-th fed once the line has filled,
\* else what compand_drain read from the buffer
Carried(c, k) ==
    IF Len(fed[c]) >= delay_samples THEN fed[c][k] ELSE raw[c][k]

\* C2, amended: every emitted sample is the sample it carries times the gain
\* of the channel's volume at the time of emission (after the update for the
\* sample arriving then; after the last input when draining), clamped.
C2_GainOfEmitTime ==
    DelayMode =>
        \A c \in Chans : \A k \in 1 .. Len(sent[c]) :
            sent[c][k] =
                av_clipf(MulLin(Carried(c, k), get_volume(volh[c][EmitTime(c, k)])))

\* a drained stream with a steady emission whose gain differs between the
\* time its sample was fed and the time it was emitted
C2_Witness ==
    /\ DelayMode /\ ret = "EOF"
    /\ \E c \in Chans : \E k \in 1 .. Len(sent[c]) :
          /\ k + delay_samples <= Len(fed[c])
          /\ fed[c][k] # 0
          /\ get_volume(volh[c][k]) # get_volume(volh[c][k + delay_samples])

\* C3: after a full drain, the samples the outputs were computed from are the
\* fed-in samples in their original order.
C3_DelayLineIsFifo ==
    (DelayMode /\ ret = "EOF") => \A c \in Chans : raw[c] = fed[c]

\* the largest index of the segment array the scan of get_volume reads
ScanReads(v) == ScanSegments(segments, beyond, Logf(v), 1) + 1

\* C4: for every envelope level at or above in_min_lin that get_volume is
\* called with, the scan reads only inside the segments array.
C4_ScanStaysInArray ==
    compand = "compand_nodelay" =>
        \A c \in Chans : \A k \in 1 .. Len(volh[c]) :
            volh[c][k] >= in_min_lin => ScanReads(volh[c][k]) \in DOMAIN segments

\* C5, as claimed: config_output fails whenever the attack or decay count
\* differs from the channel count.
C5_CountMismatchFails ==
    (ret # "none" /\ (count_items(opts.attacks) # layout
                      \/ count_items(opts.decays) # layout))
        => ret = "EINVAL"

\* C5, amended: config_output fails, and nothing is ever processed, whenever
\* the attack or decay count is larger than the channel count.
C5_TooManyItemsFail ==
    (ret # "none" /\ (count_items(opts.attacks) > layout
                      \/ count_items(opts.decays) > layout))
        => /\ ret = "EINVAL"
           /\ compand = "none"
           /\ fed = << >> /\ sent = << >>

\* a configuration rejected for its attack count alone
C5_Witness ==
    /\ ret = "EINVAL"
    /\ count_items(opts.attacks) > layout
    /\ ~ConfigInvalidUncounted(opts, layout)

\* C6: the fill count and the index stay inside the delay line, and every
\* channel ends its loop at the shared count and index.
C6_DelayLineInvariant ==
    DelayMode =>
        /\ 0 <= delay_count /\ delay_count <= delay_samples
        /\ 0 <= delay_index /\ delay_index < delay_samples
        /\ \A c \in Chans :
              chan_end[c] = [count |-> delay_count, dindex |-> delay_index]

\* two channels, the line full and the index past its first wrap
C6_Witness ==
    /\ DelayMode /\ last_call = "compand_delay"
    /\ nb_channels = 2
    /\ delay_count = delay_samples
    /\ Len(fed[1]) > delay_samples

\* C7: a call on n samples emits n samples without delay; with delay it emits
\* max(0, n - (C - c)) samples, no frame at all when that is 0, and leaves the
\* fill count at min(C, c + n).
C7_SamplesPerCall ==
    [][ last_call' \in {"compand_nodelay", "compand_delay"} =>
          LET n == Len(fed'[1]) - Len(fed[1])
              m == Len(sent'[1]) - Len(sent[1])
          IN  /\ \A c \in Chans : Len(sent'[c]) - Len(sent[c]) = m
              /\ ~DelayMode =>
                    /\ m = n
                    /\ ~out_frame'.null /\ out_frame'.nb_samples = n
              /\ DelayMode =>
                    /\ m = Max(0, n - (delay_samples - delay_count))
                    /\ out_frame'.null <=> m = 0
                    /\ ~out_frame'.null => out_frame'.nb_samples = m
                    /\ delay_count' = Min(delay_samples, delay_count + n)
      ]_vars

\* the first output frame of a delayed stream, smaller than what was fed
C7_Witness ==
    /\ DelayMode /\ last_call = "compand_delay"
    /\ ~out_frame.null
    /\ out_frame.nb_samples = Len(sent[1])
    /\ Len(sent[1]) > 0 /\ Len(sent[1]) < Len(fed[1])

\* C8, as claimed: one update_volume call leaves the volume in the closed
\* interval between the previous volume and the input level, by the attack
\* coefficient when the input is above the volume and by the decay coefficient
\* otherwise; a coefficient of 1 lands on the input level.
C8_NoOvershoot ==
    last_call = "update_volume" =>
        LET prev == volh[1][1]
            new == volh[1][2]
            in == fed[1][1]
            coef == IF in > prev THEN channels[1].attack ELSE channels[1].decay
        IN  /\ Min(prev, in) <= new /\ new <= Max(prev, in)
            /\ coef = One => new = in

\* the rounding a call can add: nothing while the difference, the product and
\* the sum are floats, else two float spacings at the larger of the two levels
Slack(prev, in) ==
    IF Max(prev, in) < Pow2(MantBits) THEN 0 ELSE 2 * Spacing(Max(prev, in))

\* C8, amended: one update_volume call leaves the volume within two float
\* spacings of prev + (in - prev) * coefficient, attack when the input is above
\* the volume and decay otherwise, hence within two spacings of the interval
\* between the previous volume and the input level, and, with a coefficient of
\* 1, within two spacings of the input level; it is exact when no operation
\* rounds, and the volume never becomes negative.
C8_NoOvershootBeyondRounding ==
    last_call = "update_volume" =>
        LET prev == volh[1][1]
            new == volh[1][2]
            in == fed[1][1]
            coef == IF in > prev THEN channels[1].attack ELSE channels[1].decay
            exact == prev + MulLin(in - prev, coef)
            slack == Slack(prev, in)
        IN  /\ Abs(new - exact) <= slack
            /\ Min(prev, in) - slack <= new /\ new <= Max(prev, in) + slack
            /\ coef = One => Abs(new - in) <= slack
            /\ new >= 0
            /\ channels[1].volume = new

\* a decay with coefficient 1 from a level whose float spacing exceeds the
\* input level: the volume lands below the input
C8_Witness ==
    /\ last_call = "update_volume"
    /\ channels[1].decay = One
    /\ volh[1][2] < fed[1][1] /\ fed[1][1] < volh[1][1]

\* C9: a request at end of stream with samples buffered emits one frame of
\* min(2048, delay_count) samples and takes as many off delay_count; with
\* nothing buffered it reports EOF and emits nothing.
C9_DrainInChunks ==
    [][ eof' =>
          /\ delay_count > 0 =>
                LET n == IF delay_count < 2048 THEN delay_count ELSE 2048
                IN  /\ ret' = "ok"
                    /\ ~out_frame'.null /\ out_frame'.nb_samples = n
                    /\ \A c \in Chans : Len(sent'[c]) = Len(sent[c]) + n
                    /\ delay_count' = delay_count - n
                    /\ delay_count' < delay_count
          /\ delay_count = 0 =>
                /\ ret' = "EOF"
                /\ out_frame'.null
                /\ sent' = sent
      ]_vars

\* a drain frame of 2048 samples with more still buffered
C9_Witness ==
    /\ last_call = "compand_drain"
    /\ out_frame.nb_samples = 2048
    /\ delay_count > 0

\* C10: compand_drain leaves the envelope, the coefficients, the curve and the
\* delay buffers as they were, and scales what it emits by the gain of the
\* volume after the last input sample.
C10_DrainFrozen ==
    [][ last_call' = "compand_drain" =>
          /\ UNCHANGED << channels, segments, in_min_lin, out_min_lin, delay_frame,
                          delay_samples, nb_channels, volh, fed >>
          /\ \A c \in Chans : \A k \in Len(sent[c]) + 1 .. Len(sent'[c]) :
                sent'[c][k] =
                    av_clipf(MulLin(raw'[c][k], get_volume(volh[c][Len(volh[c])])))
      ]_vars

\* a drain after an envelope that has moved off its initial volume
C10_Witness ==
    /\ last_call = "compand_drain"
    /\ \E c \in Chans : channels[c].volume # Expf(DbToLn(opts.initial_volume))
====
